---------------------------- MODULE Spec2Model ----------------------------
(***************************************************************************)
(* Model of app.py: the Flask backend that turns a free-text prompt into   *)
(* a "Top 10" product list (Rainforest API) and optionally e-mails it      *)
(* (Gmail SMTP, port 465 with a fallback to port 587).                     *)
(*                                                                         *)
(* Python strings on which the code computes (strip, lower, title,         *)
(* substring tests) are sequences of one-character strings.  Values the    *)
(* code only tests for truthiness or copies are atoms (TLA+ strings).      *)
(***************************************************************************)
EXTENDS Integers, Sequences, FiniteSets, TLC

VARIABLES
    env,         \* os.environ: which of the configuration variables are set
    pc,          \* position of the request handler generate_list
    request,     \* the POST body as received
    upstream,    \* what requests.get produced in search_products
    prompt,      \* local `prompt` of generate_list (stripped)
    user_email,  \* local `user_email` of generate_list (stripped)
    result,      \* local `result` of generate_list
    msg,         \* the EmailMessage built by send_email_html
    response,    \* the HTTP response returned by generate_list
    raised,      \* message of the exception caught at line 254, <<>> if none
    log,         \* outbound calls made while handling the request, in order
    arg,         \* argument of the function applied on its own (unit specs)
    ret          \* its return value

vars == <<env, pc, request, upstream, prompt, user_email, result, msg,
          response, raised, log, arg, ret>>

(***************************************************************************)
(* Bounds of the model.                                                    *)
(***************************************************************************)
\* longest upstream result list the handler specification draws
MaxUpstream == 2
\* longest upstream result list the search specification draws
MaxSearchResults == 12
\* most invalid entries in a list the search specification draws
MaxInvalid == 1
\* most fragments concatenated into a query of the classifier specification
MaxFragments == 3

(***************************************************************************)
(* Python str operations.                                                  *)
(***************************************************************************)
LowerLetters ==
    <<"a","b","c","d","e","f","g","h","i","j","k","l","m",
      "n","o","p","q","r","s","t","u","v","w","x","y","z">>

UpperLetters ==
    <<"A","B","C","D","E","F","G","H","I","J","K","L","M",
      "N","O","P","Q","R","S","T","U","V","W","X","Y","Z">>

Range(f) == {f[i] : i \in DOMAIN f}

IsCased(c) == c \in Range(LowerLetters) \cup Range(UpperLetters)

\* str.lower() on one character
LowerChar(c) ==
    IF c \in Range(UpperLetters)
    THEN LowerLetters[CHOOSE i \in DOMAIN UpperLetters : UpperLetters[i] = c]
    ELSE c

\* str.upper() on one character
UpperChar(c) ==
    IF c \in Range(LowerLetters)
    THEN UpperLetters[CHOOSE i \in DOMAIN LowerLetters : LowerLetters[i] = c]
    ELSE c

\* str.lower()
Lower(s) == [i \in 1..Len(s) |-> LowerChar(s[i])]

\* str.title(): a cased character is upper-cased when it follows an uncased
\* character (or starts the string) and lower-cased otherwise
Title(s) ==
    [i \in 1..Len(s) |->
        IF i = 1 \/ ~IsCased(s[i-1]) THEN UpperChar(s[i]) ELSE LowerChar(s[i])]

LF == "\n"

Whitespace == {" ", LF}

\* str.strip()
Strip(s) ==
    LET keep == {i \in 1..Len(s) : s[i] \notin Whitespace}
    IN  IF keep = {} THEN <<>>
        ELSE SubSeq(s, CHOOSE i \in keep : \A j \in keep : i <= j,
                       CHOOSE i \in keep : \A j \in keep : i >= j)

\* `w in p` for strings
Contains(w, p) ==
    \E i \in 0..(Len(p) - Len(w)) : SubSeq(p, i + 1, i + Len(w)) = w

\* any(w in p for w in words)
AnyIn(words, p) == \E k \in DOMAIN words : Contains(words[k], p)

(***************************************************************************)
(* ProductListGenerator.intelligent_category_analysis                      *)
(***************************************************************************)
GROCERY_WORDS ==
    << <<"f","o","o","d">>,
       <<"s","n","a","c","k">>,
       <<"c","h","i","p","s">>,
       <<"c","a","n","d","y">>,
       <<"c","o","f","f","e","e">>,
       <<"t","e","a">>,
       <<"o","r","g","a","n","i","c">>,
       <<"g","r","o","c","e","r","y">> >>

BABY_WORDS ==
    << <<"b","a","b","y">>,
       <<"d","i","a","p","e","r">>,
       <<"i","n","f","a","n","t">>,
       <<"t","o","d","d","l","e","r">>,
       <<"k","i","d","s">>,
       <<"c","h","i","l","d","r","e","n">> >>

BEAUTY_WORDS ==
    << <<"s","k","i","n","c","a","r","e">>,
       <<"b","e","a","u","t","y">>,
       <<"m","a","k","e","u","p">>,
       <<"c","o","s","m","e","t","i","c">>,
       <<"a","n","t","i","-","a","g","i","n","g">> >>

ELECTRONICS_WORDS ==
    << <<"p","h","o","n","e">>,
       <<"s","m","a","r","t","p","h","o","n","e">>,
       <<"l","a","p","t","o","p">>,
       <<"h","e","a","d","p","h","o","n","e">>,
       <<"g","a","m","i","n","g">> >>

\* the classifier with the lower-casing of line 152 left out
intelligent_category_analysis_nolower(p0) ==
    IF AnyIn(GROCERY_WORDS, p0)
    THEN [category |-> "grocery", search_terms |-> p0 \o <<" ","f","o","o","d">>]
    ELSE IF AnyIn(BABY_WORDS, p0)
    THEN [category |-> "baby", search_terms |-> p0 \o <<" ","b","a","b","y">>]
    ELSE IF AnyIn(BEAUTY_WORDS, p0)
    THEN [category |-> "beauty",
          search_terms |-> p0 \o <<" ","b","e","a","u","t","y">>]
    ELSE IF AnyIn(ELECTRONICS_WORDS, p0)
    THEN [category |-> "electronics", search_terms |-> p0]
    ELSE [category |-> "general", search_terms |-> p0]

\* lines 151-161
intelligent_category_analysis(p0) ==
    LET p == Lower(p0)
    IN  IF AnyIn(GROCERY_WORDS, p)
        THEN [category |-> "grocery",
              search_terms |-> p0 \o <<" ","f","o","o","d">>]
        ELSE IF AnyIn(BABY_WORDS, p)
        THEN [category |-> "baby", search_terms |-> p0 \o <<" ","b","a","b","y">>]
        ELSE IF AnyIn(BEAUTY_WORDS, p)
        THEN [category |-> "beauty",
              search_terms |-> p0 \o <<" ","b","e","a","u","t","y">>]
        ELSE IF AnyIn(ELECTRONICS_WORDS, p)
        THEN [category |-> "electronics", search_terms |-> p0]
        ELSE [category |-> "general", search_terms |-> p0]


(***************************************************************************)
(* JSON values of the request body, as far as the handler tells them apart *)
(***************************************************************************)
\* the key is not in the body: dict.get returns None
JAbsent == [t |-> "absent", s |-> <<>>]
\* JSON null
JNull == [t |-> "null", s |-> <<>>]
\* a JSON string
JStr(s) == [t |-> "str", s |-> s]
\* a JSON number other than 0 (truthy, and not a str)
JNum == [t |-> "num", s |-> <<>>]

\* Python truthiness of a value of the body
JTruthy(v) == v.t = "num" \/ (v.t = "str" /\ v.s # <<>>)

\* `v or ''`
OrEmpty(v) == IF JTruthy(v) THEN v ELSE JStr(<<>>)

\* Python None and the truthiness of an atom
None == "<None>"

Truthy(a) == a \notin {None, ""}

(***************************************************************************)
(* Literals of app.py                                                      *)
(***************************************************************************)
AFFILIATE_ID == "ai4u0c-20"

SMTP_SSL_PORT == 465

SMTP_STARTTLS_PORT == 587

MAX_RESULTS == 10

ERR_PROMPT_REQUIRED == <<"Prompt is required">>

ERR_NO_API_KEY == <<"Rainforest API key not found in environment variables">>

ERR_CONNECTION == <<"Failed to connect to Rainforest API: ", "RequestException">>

ERR_INVALID_RESPONSE ==
    <<"Invalid response from Rainforest API: ", "No search_results">>

ERR_BAD_JSON == <<"400 Bad Request: Failed to decode JSON object">>

ERR_NO_GET == <<"object has no attribute 'get'">>

ERR_NO_STRIP == <<"object has no attribute 'strip'">>

ERR_HEADER_LINEFEED ==
    <<"Header values may not contain linefeed or carriage return characters">>

REASON_MISSING_EMAIL_CONFIG == "missing_email_config_or_to"

REASON_MISSING_ADMIN == "missing_admin_or_auth"

(***************************************************************************)
(* RainforestApiClient.search_products                                     *)
(***************************************************************************)
Min(a, b) == IF a <= b THEN a ELSE b

\* s[:n]
Take(s, n) == SubSeq(s, 1, Min(n, Len(s)))

\* an entry is kept only with an asin: the title test of line 127 left out
Retained_asin_only(item) == Truthy(item.asin)

\* line 127: `if not item.get("asin") or not item.get("title"): continue`
Retained(item) == Truthy(item.asin) /\ Truthy(item.title)

\* lines 130-139: the product record built from an upstream entry
Product(item) ==
    [asin           |-> item.asin,
     title          |-> item.title,
     price          |-> IF item.price = None THEN "Price not available"
                        ELSE item.price,
     rating         |-> IF item.rating = None THEN "0" ELSE item.rating,
     affiliate_link |-> <<"https://www.amazon.com/dp/", item.asin, "?tag=",
                          AFFILIATE_ID>>,
     image_url      |-> IF item.image = None THEN "" ELSE item.image,
     description    |-> item.title,
     amazon_url     |-> <<"https://www.amazon.com/dp/", item.asin>>]

\* lines 119-144.  data.kind is what requests.get produced: "http_error" (no
\* connection, timeout, or a non-success status), "no_results" (a body without
\* the search_results field) or "ok".  exc is the exception raised, <<>> if none.
search_products(data, max_results) ==
    IF data.kind = "http_error"
    THEN [exc |-> ERR_CONNECTION, products |-> <<>>]
    ELSE IF data.kind = "no_results"
    THEN [exc |-> ERR_INVALID_RESPONSE, products |-> <<>>]
    ELSE LET kept == SelectSeq(Take(data.search_results, max_results), Retained)
         IN  [exc |-> <<>>,
              products |-> [i \in 1..Len(kept) |-> Product(kept[i])]]

(***************************************************************************)
(* ProductListGenerator.generate_top10_list                                *)
(***************************************************************************)
NoStatus == [sent |-> FALSE, reason |-> ""]

\* a response dict: keys is the set of keys present
NoResult ==
    [keys |-> {}, success |-> FALSE, error |-> <<>>, title |-> <<>>,
     intro |-> <<>>, category |-> "", products |-> <<>>, affiliate_id |-> "",
     list_id |-> "", share_url |-> <<>>, email_status |-> NoStatus]

\* {'success': False, 'error': message}
Failure(message) ==
    [NoResult EXCEPT !.keys = {"success", "error"}, !.error = message]

ERR_NOT_FOUND(p) ==
    <<"No products found for '">> \o p \o <<"'. Try a different term.">>

\* lines 170-183
ListResult(p, category, products) ==
    [NoResult EXCEPT
        !.keys = {"success", "title", "intro", "category", "products",
                  "generated_at", "affiliate_id"},
        !.success = TRUE,
        !.title = <<"Top 10 ">> \o Title(p)
                    \o <<" - AI-Researched & Endorsed 2025">>,
        !.intro = <<"Our AI analyzed ">> \o Lower(p) \o <<" to produce this Top 10. ">>,
        !.category = category,
        !.products = Take(products, MAX_RESULTS),
        !.affiliate_id = AFFILIATE_ID]

\* the generator without the test of line 166
generate_top10_list_no_empty_test(p, data) ==
    LET category_info == intelligent_category_analysis(p)
        found == search_products(data, MAX_RESULTS)
    IN  IF found.exc # <<>>
        THEN [exc |-> found.exc, result |-> NoResult]
        ELSE [exc |-> <<>>,
              result |-> ListResult(p, category_info.category, found.products)]

\* lines 163-183.  exc is the exception search_products raised, <<>> if none.
generate_top10_list(p, data) ==
    LET category_info == intelligent_category_analysis(p)
        found == search_products(data, MAX_RESULTS)
    IN  IF found.exc # <<>>
        THEN [exc |-> found.exc, result |-> NoResult]
        ELSE IF found.products = <<>>
        THEN [exc |-> <<>>, result |-> Failure(ERR_NOT_FOUND(p))]
        ELSE [exc |-> <<>>,
              result |-> ListResult(p, category_info.category, found.products)]

(***************************************************************************)
(* send_email_html and send_admin_lead, up to their first SMTP connection  *)
(***************************************************************************)
\* line 38: `if not sender or not password or not to_email`
send_email_html_unconfigured(e, to_email) ==
    ~e.EMAIL_USER \/ ~e.EMAIL_PASSWORD \/ to_email = <<>>

\* line 73: `if not sender or not password or not admin`
send_admin_lead_unconfigured(e) ==
    ~e.EMAIL_USER \/ ~e.EMAIL_PASSWORD \/ ~e.ADMIN_EMAIL

\* EmailMessage refuses a header value that holds a line break (ValueError)
HasLinefeed(s) == \E i \in DOMAIN s : s[i] = LF

NoMessage == [to |-> <<>>, bcc |-> FALSE, subject |-> <<>>, html |-> <<>>]

\* lines 41-48, which no try block encloses: exc is the exception raised while
\* the headers are set, <<>> if none
BuildMessage(to_email, subject, html_body, bcc) ==
    IF HasLinefeed(to_email) \/ HasLinefeed(subject)
    THEN [exc |-> ERR_HEADER_LINEFEED, msg |-> NoMessage]
    ELSE [exc |-> <<>>,
          msg |-> [to |-> to_email, bcc |-> bcc, subject |-> subject,
                   html |-> html_body]]

\* lines 209-229: one table row per product
Rows(products) ==
    [i \in 1..Len(products) |->
        [n     |-> i,
         title |-> products[i].title,
         asin  |-> products[i].asin,
         price |-> products[i].price,
         rating |-> products[i].rating,
         aff   |-> products[i].affiliate_link,
         img   |-> products[i].image_url]]

(***************************************************************************)
(* generate_list: the handler of POST /api/generate-list                   *)
(***************************************************************************)
NoResponse == [status |-> 0, body |-> NoResult]

\* the exception handler with the status of an upstream error
ErrorResponse_502(e) == [status |-> 502, body |-> Failure(e)]

\* lines 254-255
ErrorResponse(e) == [status |-> 500, body |-> Failure(e)]

\* the request-scoped state as a record
Frame ==
    [pc |-> pc, upstream |-> upstream, prompt |-> prompt,
     user_email |-> user_email, result |-> result, msg |-> msg, response |-> response,
     raised |-> raised, log |-> log]

Install(f) ==
    /\ pc' = f.pc
    /\ upstream' = f.upstream
    /\ prompt' = f.prompt
    /\ user_email' = f.user_email
    /\ result' = f.result
    /\ msg' = f.msg
    /\ response' = f.response
    /\ raised' = f.raised
    /\ log' = f.log

NoUpstream == [kind |-> "none", search_results |-> <<>>]

IdleFrame ==
    [pc |-> "idle", upstream |-> NoUpstream, prompt |-> <<>>, user_email |-> <<>>, result |-> NoResult,
     msg |-> NoMessage, response |-> NoResponse, raised |-> <<>>, log |-> <<>>]

\* an exception reaches `except Exception as e` of line 254
Raise(f, e) ==
    [f EXCEPT !.pc = "done", !.raised = e, !.response = ErrorResponse(e)]

\* `return jsonify(body), status`
Return(f, status, body) ==
    [f EXCEPT !.pc = "done", !.response = [status |-> status, body |-> body]]

Event(ev, port, rcpt, ok) == [ev |-> ev, port |-> port, rcpt |-> rcpt, ok |-> ok]

\* line 207 without the test of the address
ShouldDeliver_any_address(email, res) == res.products # <<>>

\* line 207: `if user_email and result.get('products')`
ShouldDeliver(email, res) == email # <<>> /\ res.products # <<>>

\* lines 189-197: parse, validate, construct the generator
Validate(f, body, e) ==
    IF body.kind = "malformed" THEN Raise(f, ERR_BAD_JSON)
    ELSE IF body.kind = "array" THEN Raise(f, ERR_NO_GET)
    ELSE LET p == OrEmpty(body.prompt)
             m == OrEmpty(body.email)
         IN  IF p.t # "str" THEN Raise(f, ERR_NO_STRIP)
             ELSE IF m.t # "str"
             THEN Raise([f EXCEPT !.prompt = Strip(p.s)], ERR_NO_STRIP)
             ELSE LET f1 == [f EXCEPT !.prompt = Strip(p.s),
                                      !.user_email = Strip(m.s)]
                      f2 == [f1 EXCEPT !.log =
                                Append(@, Event("construct", 0, "", TRUE))]
                  IN  IF f1.prompt = <<>>
                      THEN Return(f1, 400, Failure(ERR_PROMPT_REQUIRED))
                      ELSE IF ~e.RAINFOREST_API_KEY
                      THEN Raise(f2, ERR_NO_API_KEY)
                      ELSE [f2 EXCEPT !.pc = "search"]

\* lines 244-251 once the user's delivery has ended with `status`: record it,
\* then send_admin_lead up to its first connection
AfterUserEmail(f, status, e) ==
    LET f1 == [f EXCEPT !.result.email_status = status,
                        !.result.keys = @ \cup {"email_status"}]
    IN  IF send_admin_lead_unconfigured(e)
        THEN Return(f1, 200, f1.result)
        ELSE [f1 EXCEPT !.pc = "admin_465"]

\* lines 197-249 from the answer of the Rainforest API to the first SMTP
\* connection
AfterSearch(f, data, list_id, e) ==
    LET f1 == [f EXCEPT !.upstream = data,
                        !.log = Append(@, Event("search", 0, "", data.kind = "ok"))]
        got == generate_top10_list(f.prompt, data)
    IN  IF got.exc # <<>> THEN Raise(f1, got.exc)
        ELSE IF ~got.result.success
        THEN Return([f1 EXCEPT !.result = got.result], 200, got.result)
        ELSE LET res == [got.result EXCEPT
                            !.keys = @ \cup {"share_url", "list_id"},
                            !.list_id = list_id,
                            !.share_url =
                                <<"https://ai4u-top10-lists.vercel.app/list/",
                                  list_id>>]
                 f2 == [f1 EXCEPT !.result = res]
             IN  IF ~ShouldDeliver(f.user_email, res)
                 THEN Return(f2, 200, res)
                 ELSE IF send_email_html_unconfigured(e, f.user_email)
                 THEN AfterUserEmail(f2,
                        [sent |-> FALSE, reason |-> REASON_MISSING_EMAIL_CONFIG], e)
                 ELSE LET built == BuildMessage(f.user_email, res.title,
                                                Rows(res.products), e.ADMIN_EMAIL)
                      IN  IF built.exc # <<>> THEN Raise(f2, built.exc)
                          ELSE [f2 EXCEPT !.msg = built.msg, !.pc = "user_465"]

(***************************************************************************)
(* Inputs: request bodies, answers of the Rainforest API, SMTP outcomes    *)
(***************************************************************************)
S_blank == <<" "," ">>

S_tea == <<" ","G","r","e","e","n"," ","T","E","A",LF>>

S_lamp == <<"l","a","m","p">>

S_two_lines == <<"l","a","m","p",LF,"o","i","l">>

S_user_at_example == <<"u","s","e","r","@","e","x","a","m","p","l","e",".","c","o","m">>

S_not_an_email == <<"n","o","t","-","a","n","-","e","m","a","i","l">>

S_folded_address == <<"a",LF,"b","@","c",".","d","e">>

Prompts ==
    {JAbsent, JNull, JNum, JStr(<<>>), JStr(S_blank), JStr(S_tea), JStr(S_lamp),
     JStr(S_two_lines)}

Emails ==
    {JAbsent, JNum, JStr(<<>>), JStr(S_blank), JStr(S_user_at_example),
     JStr(S_not_an_email), JStr(S_folded_address)}

\* what request.get_json(force=True) yields: a JSON object, a JSON value that
\* is falsy (null, {}, [], 0: replaced by {} at line 189), a truthy value that
\* is no object, or a BadRequest for a body that is not JSON
Bodies ==
    {[kind |-> "object", prompt |-> p, email |-> m] : p \in Prompts, m \in Emails}
    \cup {[kind |-> k, prompt |-> JAbsent, email |-> JAbsent] :
            k \in {"falsy", "array", "malformed"}}

NoBody == [kind |-> "none", prompt |-> JAbsent, email |-> JAbsent]

\* entries of search_results
ItemFull ==
    [asin |-> "B001", title |-> "Green Tea", price |-> "$9.99", rating |-> "4.5",
     image |-> "https://m.media-amazon.com/1.jpg"]

ItemBare ==
    [asin |-> "B002", title |-> "Oil Lamp", price |-> None, rating |-> None,
     image |-> None]

ItemNoAsin == [ItemFull EXCEPT !.asin = None]

ItemEmptyAsin == [ItemFull EXCEPT !.asin = ""]

ItemNoTitle == [ItemBare EXCEPT !.title = None]

ItemEmptyTitle == [ItemBare EXCEPT !.title = ""]

Catalog ==
    {ItemFull, ItemBare, ItemNoAsin, ItemEmptyAsin, ItemNoTitle, ItemEmptyTitle}

SeqsUpTo(S, n) == UNION {[1..k -> S] : k \in 0..n}

HttpError == [kind |-> "http_error", search_results |-> <<>>]

NoResultsField == [kind |-> "no_results", search_results |-> <<>>]

Ok(items) == [kind |-> "ok", search_results |-> items]

UpstreamResponses ==
    {HttpError, NoResultsField} \cup {Ok(s) : s \in SeqsUpTo(Catalog, MaxUpstream)}

\* str(uuid.uuid4())[:8]
ListIds == {"1f0e3dad", "9b2c4a7e"}

\* what an SMTP session (connect, login, send_message) ends with
SmtpOutcomes == {"sent", "SMTPAuthenticationError", "TimeoutError"}

Environments ==
    [RAINFOREST_API_KEY : BOOLEAN, EMAIL_USER : BOOLEAN,
     EMAIL_PASSWORD : BOOLEAN, ADMIN_EMAIL : BOOLEAN]

(***************************************************************************)
(* The handler as a state machine: one step per outbound call              *)
(***************************************************************************)
Init ==
    /\ env \in Environments
    /\ request = NoBody
    /\ pc = "idle"
    /\ upstream = NoUpstream
    /\ prompt = <<>>
    /\ user_email = <<>>
    /\ result = NoResult
    /\ msg = NoMessage
    /\ response = NoResponse
    /\ raised = <<>>
    /\ log = <<>>
    /\ arg = <<>>
    /\ ret = <<>>

\* a request arrives: lines 189-197, up to requests.get
Receive(body) ==
    /\ pc = "idle"
    /\ request' = body
    /\ Install(Validate(Frame, body, env))
    /\ UNCHANGED <<env, arg, ret>>

\* requests.get answers: lines 120-249, up to the first SMTP connection
Search(data, list_id) ==
    /\ pc = "search"
    /\ Install(AfterSearch(Frame, data, list_id, env))
    /\ UNCHANGED <<env, request, arg, ret>>

\* send_email_html, lines 51-57: the session on port 465
UserSmtp465(outcome) ==
    /\ pc = "user_465"
    /\ LET f == [Frame EXCEPT !.log =
                    Append(@, Event("smtp", SMTP_SSL_PORT, "user", outcome = "sent"))]
       IN  Install(IF outcome = "sent"
                   THEN AfterUserEmail(f, [sent |-> TRUE, reason |-> ""], env)
                   ELSE [f EXCEPT !.pc = "user_587"])
    /\ UNCHANGED <<env, request, arg, ret>>

\* send_email_html, lines 58-66: the session on port 587
UserSmtp587(outcome) ==
    /\ pc = "user_587"
    /\ LET f == [Frame EXCEPT !.log =
                    Append(@, Event("smtp", SMTP_STARTTLS_PORT, "user",
                                    outcome = "sent"))]
       IN  Install(IF outcome = "sent"
                   THEN AfterUserEmail(f, [sent |-> TRUE, reason |-> ""], env)
                   ELSE AfterUserEmail(f, [sent |-> FALSE, reason |-> outcome], env))
    /\ UNCHANGED <<env, request, arg, ret>>

\* send_admin_lead, lines 84-90: the session on port 465
AdminSmtp465(outcome) ==
    /\ pc = "admin_465"
    /\ LET f == [Frame EXCEPT !.log =
                    Append(@, Event("smtp", SMTP_SSL_PORT, "admin", outcome = "sent"))]
       IN  Install(IF outcome = "sent"
                   THEN Return(f, 200, f.result)
                   ELSE [f EXCEPT !.pc = "admin_587"])
    /\ UNCHANGED <<env, request, arg, ret>>

\* send_admin_lead, lines 91-99: the session on port 587; line 251 drops the
\* outcome
AdminSmtp587(outcome) ==
    /\ pc = "admin_587"
    /\ LET f == [Frame EXCEPT !.log =
                    Append(@, Event("smtp", SMTP_STARTTLS_PORT, "admin",
                                    outcome = "sent"))]
       IN  Install(Return(f, 200, f.result))
    /\ UNCHANGED <<env, request, arg, ret>>

\* the response is sent; nothing of the request is kept
Finish ==
    /\ pc = "done"
    /\ request' = NoBody
    /\ Install(IdleFrame)
    /\ UNCHANGED <<env, arg, ret>>

Next ==
    \/ \E body \in Bodies : Receive(body)
    \/ \E data \in UpstreamResponses, id \in ListIds : Search(data, id)
    \/ \E o \in SmtpOutcomes : UserSmtp465(o)
    \/ \E o \in SmtpOutcomes : UserSmtp587(o)
    \/ \E o \in SmtpOutcomes : AdminSmtp465(o)
    \/ \E o \in SmtpOutcomes : AdminSmtp587(o)
    \/ Finish

Spec == Init /\ [][Next]_vars

(***************************************************************************)
(* intelligent_category_analysis applied on its own                        *)
(***************************************************************************)
Fragments ==
    {<<"T","e","A">>, <<"B","a","b","y">>, <<"M","A","K","E","U","P">>,
     <<"p","h","o","n","e">>, <<"c","o","f">>, <<"F","E","E">>, <<" ">>}

RECURSIVE Flatten(_)
Flatten(ss) == IF ss = <<>> THEN <<>> ELSE Head(ss) \o Flatten(Tail(ss))

Queries == {Flatten(ss) : ss \in SeqsUpTo(Fragments, MaxFragments)}

\* the handler's variables while a function is applied on its own
HandlerIdle ==
    /\ env = [RAINFOREST_API_KEY |-> TRUE, EMAIL_USER |-> FALSE,
              EMAIL_PASSWORD |-> FALSE, ADMIN_EMAIL |-> FALSE]
    /\ request = NoBody
    /\ upstream = NoUpstream
    /\ prompt = <<>>
    /\ user_email = <<>>
    /\ result = NoResult
    /\ msg = NoMessage
    /\ response = NoResponse
    /\ raised = <<>>
    /\ log = <<>>

HandlerUnchanged ==
    UNCHANGED <<env, request, upstream, prompt, user_email, result, msg,
                response, raised, log>>

ClassifyInit ==
    /\ HandlerIdle
    /\ pc = "call"
    /\ arg \in Queries
    /\ ret = [category |-> "", search_terms |-> <<>>]

Classify ==
    /\ pc = "call"
    /\ ret' = intelligent_category_analysis(arg)
    /\ pc' = "return"
    /\ UNCHANGED arg
    /\ HandlerUnchanged

ClassifyNext == Classify

SpecClassify == ClassifyInit /\ [][ClassifyNext]_vars

(***************************************************************************)
(* generate_top10_list (and search_products under it) applied on its own   *)
(***************************************************************************)
\* the i-th entry of a result list, valid
Entry(i) ==
    [asin |-> ToString(i), title |-> ToString(i), price |-> "$9.99",
     rating |-> "4.5", image |-> None]

InvalidKinds == {"no_asin", "empty_asin", "no_title", "empty_title"}

Invalidate(item, k) ==
    CASE k = "no_asin"     -> [item EXCEPT !.asin = None]
      [] k = "empty_asin"  -> [item EXCEPT !.asin = ""]
      [] k = "no_title"    -> [item EXCEPT !.title = None]
      [] k = "empty_title" -> [item EXCEPT !.title = ""]

\* result lists of n entries of which those at the positions in bad are invalid
ResultList(n, bad, k) ==
    [i \in 1..n |-> IF i \in bad THEN Invalidate(Entry(i), k) ELSE Entry(i)]

SearchInputs ==
    {HttpError, NoResultsField}
    \cup {Ok(ResultList(n, bad, k)) :
            n \in 0..MaxSearchResults,
            bad \in {b \in SUBSET (1..MaxSearchResults) : Cardinality(b) <= MaxInvalid},
            k \in InvalidKinds}

SearchInit ==
    /\ HandlerIdle
    /\ pc = "call"
    /\ arg \in SearchInputs
    /\ ret = [exc |-> <<>>, result |-> NoResult]

SearchCall ==
    /\ pc = "call"
    /\ ret' = generate_top10_list(S_lamp, arg)
    /\ pc' = "return"
    /\ UNCHANGED arg
    /\ HandlerUnchanged

SearchNext == SearchCall

SpecSearch == SearchInit /\ [][SearchNext]_vars

(***************************************************************************)
(* Properties                                                              *)
(***************************************************************************)
IsSmtp(e) == e.ev = "smtp"

IsUserSmtp(e) == e.ev = "smtp" /\ e.rcpt = "user"

IsAdminSmtp(e) == e.ev = "smtp" /\ e.rcpt = "admin"

IsSearch(e) == e.ev = "search"

\* a prompt or address that is missing, null, empty or blank
Blank(v) == v.t \in {"absent", "null"} \/ (v.t = "str" /\ Strip(v.s) = <<>>)

\* an identifier or title that is present and not empty
Present(a) == a # None /\ a # ""

ValidEntry(item) == Present(item.asin) /\ Present(item.title)

Asins(products) == [i \in 1..Len(products) |-> products[i].asin]

Digits == {"0","1","2","3","4","5","6","7","8","9"}

Alnum == Range(LowerLetters) \cup Range(UpperLetters) \cup Digits

\* local-part@domain.tld: one "@", a non-empty local part without blanks, and
\* after it at least two non-empty dot-separated labels of letters, digits
\* and hyphens
WellFormedEmail(s) ==
    \E k \in 2..(Len(s) - 3) :
        /\ s[k] = "@"
        /\ \A i \in 1..(k-1) : s[i] \in Alnum \cup {".", "_", "%", "+", "-"}
        /\ \A i \in (k+1)..Len(s) : s[i] \in Alnum \cup {"-", "."}
        /\ \E i \in (k+2)..(Len(s) - 1) : s[i] = "."
        /\ s[k+1] # "." /\ s[Len(s)] # "."
        /\ \A i \in (k+1)..(Len(s) - 1) : ~(s[i] = "." /\ s[i+1] = ".")

\* C1: a request whose prompt is missing, null, empty or blank is answered
\* with status 400 and success false, and nothing was constructed, searched
\* or sent for it.
C1_BlankPromptRejected ==
    (pc = "done" /\ request.kind = "object" /\ Blank(request.prompt))
        => /\ response.status = 400
           /\ ~response.body.success
           /\ log = <<>>

\* C2: a request (with a usable prompt) that supplies a non-empty address
\* which is not of the form local-part@domain.tld is rejected with status 400
\* before any search or delivery, and a well-formed address is not rejected.
C2_MalformedEmailRejected ==
    /\ (/\ request.kind = "object"
        /\ request.prompt.t = "str"
        /\ ~Blank(request.prompt)
        /\ request.email.t = "str"
        /\ Strip(request.email.s) # <<>>
        /\ ~WellFormedEmail(Strip(request.email.s)))
            => (pc = "done" /\ response.status = 400 /\ log = <<>>)
    /\ (/\ pc = "done"
        /\ request.kind = "object"
        /\ request.email.t = "str"
        /\ WellFormedEmail(Strip(request.email.s))
        /\ request.prompt.t = "str"
        /\ ~Blank(request.prompt))
            => response.status # 400

\* C3: once the search has succeeded for a request that supplied an address,
\* the response has status 200, success true, the title, category and
\* products of the list and an email_status, whatever became of the user's
\* e-mail and of the admin notification.
C3_DeliveryNeverChangesResponse ==
    (pc = "done" /\ result.success /\ user_email # <<>>)
        => LET list == generate_top10_list(prompt, upstream).result
           IN  /\ response.status = 200
               /\ response.body.success
               /\ response.body.title = list.title
               /\ response.body.category = list.category
               /\ response.body.products = list.products
               /\ "email_status" \in response.body.keys

\* C4: the products returned are the valid entries of the upstream list, in
\* upstream order, cut to the first 10 valid ones.
C4_FirstTenValidInOrder ==
    (pc = "return" /\ arg.kind = "ok")
        => /\ ret.exc = <<>>
           /\ Asins(ret.result.products)
                = Asins(Take(SelectSeq(arg.search_results, ValidEntry), 10))

\* a list with at least ten valid entries after an invalid one has been cut
C4_Reached ==
    /\ pc = "return"
    /\ arg.kind = "ok"
    /\ Len(arg.search_results) > 10
    /\ ~ValidEntry(arg.search_results[1])
    /\ Len(ret.result.products) = 9

\* C5: every product of a list, of a response and of an e-mail body has a
\* non-empty identifier and a non-empty title; invalid upstream entries are
\* dropped and the list is built from the others.
C5_ListedProductsValid ==
    /\ \A i \in DOMAIN result.products : ValidEntry(result.products[i])
    /\ \A i \in DOMAIN response.body.products :
            ValidEntry(response.body.products[i])
    /\ \A i \in DOMAIN msg.html : Present(msg.html[i].asin) /\ Present(msg.html[i].title)
    /\ (/\ upstream.kind = "ok"
        /\ \E i \in DOMAIN upstream.search_results :
                i <= MAX_RESULTS /\ ValidEntry(upstream.search_results[i]))
            => /\ result.success
               /\ raised \notin {ERR_CONNECTION, ERR_INVALID_RESPONSE}
               /\ Asins(result.products)
                    = Asins(SelectSeq(Take(upstream.search_results, MAX_RESULTS),
                                      ValidEntry))

\* a list was mailed and returned after an invalid entry was dropped
C5_Reached ==
    /\ pc = "done"
    /\ upstream.kind = "ok"
    /\ Len(upstream.search_results) = 2
    /\ ~ValidEntry(upstream.search_results[1])
    /\ Len(response.body.products) = 1
    /\ Len(msg.html) = 1
    /\ response.status = 200

\* C6: when no entry is retained the answer is the not-found failure, with no
\* share identifier, no email_status and no delivery; and no response is a
\* success with an empty product list.
C6_EmptySearchIsNotFound ==
    /\ response.body.success => response.body.products # <<>>
    /\ result.success => result.products # <<>>
    /\ (/\ pc = "done"
        /\ upstream.kind = "ok"
        /\ \A i \in DOMAIN upstream.search_results :
                i <= MAX_RESULTS => ~ValidEntry(upstream.search_results[i]))
            => /\ response.body = Failure(ERR_NOT_FOUND(prompt))
               /\ raised = <<>>
               /\ response.body.keys = {"success", "error"}
               /\ msg = NoMessage
               /\ SelectSeq(log, IsSmtp) = <<>>

\* every upstream entry was invalid for a request that asked for an e-mail
\* with the mail and admin configuration present
C6_Reached ==
    /\ pc = "done"
    /\ upstream.kind = "ok"
    /\ Len(upstream.search_results) = 2
    /\ user_email # <<>>
    /\ env.EMAIL_USER /\ env.EMAIL_PASSWORD /\ env.ADMIN_EMAIL
    /\ ~response.body.success

\* C7: called with credentials and a recipient, send_email_html tries port
\* 465 first, port 587 once and only after 465 failed, at most two sessions
\* in all; it returns sent true if either succeeded and sent false with a
\* reason if both failed, and never raises.
C7_DirectTransportOutcome ==
    (/\ pc = "done"
     /\ result.success
     /\ user_email # <<>>
     /\ env.EMAIL_USER /\ env.EMAIL_PASSWORD)
        => LET u == SelectSeq(log, IsUserSmtp)
           IN  /\ raised = <<>>
               /\ "email_status" \in result.keys
               /\ Len(u) \in {1, 2}
               /\ u[1].port = SMTP_SSL_PORT
               /\ (Len(u) = 2) = ~u[1].ok
               /\ Len(u) = 2 => u[2].port = SMTP_STARTTLS_PORT
               /\ result.email_status.sent = (\E i \in DOMAIN u : u[i].ok)
               /\ ~result.email_status.sent => result.email_status.reason # ""

\* C8: an SMTP session (user or admin) is opened only for a request that
\* supplied an address, after validation passed and the search returned a
\* non-empty list; with no address nothing is sent and the response has no
\* email_status.
C8_DeliveryOnlyAfterSearch ==
    /\ (\E i \in DOMAIN log : IsSmtp(log[i]))
            => /\ request.email.t = "str"
               /\ user_email # <<>>
               /\ prompt # <<>>
               /\ \E j \in DOMAIN log :
                    /\ IsSearch(log[j]) /\ log[j].ok
                    /\ \A i \in DOMAIN log : IsSmtp(log[i]) => j < i
               /\ result.success
               /\ result.products # <<>>
    /\ (pc # "idle" /\ request.kind = "object" /\ Blank(request.email))
            => /\ \A i \in DOMAIN log : ~IsSmtp(log[i])
               /\ msg = NoMessage
               /\ "email_status" \notin result.keys
               /\ "email_status" \notin response.body.keys

\* both the user's e-mail and the admin notification were attempted
C8_Reached ==
    /\ pc = "done"
    /\ \E i \in DOMAIN log : IsUserSmtp(log[i])
    /\ \E i \in DOMAIN log : IsAdminSmtp(log[i])
    /\ response.status = 200
    /\ "email_status" \in response.body.keys

Categories ==
    << [name |-> "grocery", words |-> GROCERY_WORDS],
       [name |-> "baby", words |-> BABY_WORDS],
       [name |-> "beauty", words |-> BEAUTY_WORDS],
       [name |-> "electronics", words |-> ELECTRONICS_WORDS] >>

\* the categories one of whose keywords occurs in the lower-cased query
Matching(q) ==
    {c \in DOMAIN Categories :
        \E k \in DOMAIN Categories[c].words :
            Contains(Categories[c].words[k], Lower(q))}

\* C10: the category returned is that of the first keyword set, in the order
\* grocery, baby, beauty, electronics, with a keyword in the lower-cased
\* query, and general when there is none.
C10_FirstMatchingCategory ==
    pc = "return"
        => IF Matching(arg) = {} THEN ret.category = "general"
           ELSE \E c \in Matching(arg) :
                    /\ \A d \in Matching(arg) : c <= d
                    /\ ret.category = Categories[c].name

\* an upper-case grocery keyword after a baby keyword is classified grocery
C10_Reached ==
    /\ pc = "return"
    /\ arg = <<"B","a","b","y"," ","T","e","A">>
    /\ ret.category = "grocery"
    /\ Matching(arg) = {1, 2}

=============================================================================
